---- MODULE Spec2Model ----
(***************************************************************************)
(* Model of the maze game client (src/app/maze_game.py): the game loop,    *)
(* the stage loader, the movement validator and the stage/game completion  *)
(* protocol, together with the Level Source (src/app/api_client.py) and    *)
(* the Event Sink (src/app/analytics_handler.py) as seen by the client.    *)
(*                                                                         *)
(* Coordinates are 0-based as in the code; TLA+ sequences are 1-based, so  *)
(* cell (x, y) of the grid is maze[y + 1][x + 1].  A text is a sequence of *)
(* one-character strings.  An optional value (a Python None or a dict) is  *)
(* a sequence of length 0 or 1.  Wall-clock values (stage_start_time,      *)
(* game_start_time, the time fields of the events) are not modelled.       *)
(***************************************************************************)
EXTENDS Integers, Sequences, FiniteSets, TLC

\* ------------------------------------------------------------ bounds
\* A stage accepts at most this many moves (caps stage_moves, total_moves).
MaxStageMoves == 3

\* ------------------------------------------------------- program constants
STATE_PLAYING == "playing"
STATE_STAGE_COMPLETE == "stage_complete"
STATE_GAME_COMPLETE == "game_complete"

total_stages == 10

SCREEN_WIDTH == 800
SCREEN_HEIGHT == 600

\* pygame key codes the game distinguishes, and one key that is no arrow.
ArrowKeys == {"K_UP", "K_DOWN", "K_LEFT", "K_RIGHT"}
Keys == ArrowKeys \cup {"K_SPACE"}

\* Mouse positions: inside the Continue button only, inside both buttons,
\* inside the Play Again button only, outside both.
ClickPoints == {<<400, 350>>, <<400, 375>>, <<400, 400>>, <<10, 10>>}

None == <<>>
Some(v) == <<v>>

\* ------------------------------------------------------------ level data
\* A row of the maze_stages table as the Level Source returns it.
StageRow(n, layout, sx, sy, ex, ey) ==
    [stage_number |-> n, layout |-> layout,
     start_x |-> sx, start_y |-> sy, end_x |-> ex, end_y |-> ey]

\* "SE\n": one row, the goal right of the start, a trailing line break.
LayoutLine == <<"S", "E", "\n">>
\* ".\nS.\n#E": ragged rows of lengths 1, 2, 2.
LayoutRagged == <<".", "\n", "S", ".", "\n", "#", "E">>
\* "###\n#S#\n#.#\n#E#\n###": a walled corridor.
LayoutCorridor ==
    <<"#", "#", "#", "\n", "#", "S", "#", "\n", "#", ".", "#", "\n",
      "#", "E", "#", "\n", "#", "#", "#">>
\* "#E": the row's start position (0, 0) is a wall.
LayoutWallStart == <<"#", "E">>
\* "S.": start and end are the same cell.
LayoutLoop == <<"S", ".">>
\* " .\nSE": the first line begins with a space.
LayoutIndented == <<" ", ".", "\n", "S", "E">>

\* The rows the Level Source may hold for stage n.
LevelRows(n) ==
    CASE n % 6 = 1 -> {StageRow(n, LayoutLine, 0, 0, 1, 0)}
      [] n % 6 = 2 -> {StageRow(n, LayoutRagged, 0, 1, 1, 2)}
      [] n % 6 = 3 -> {StageRow(n, LayoutCorridor, 1, 1, 1, 3)}
      [] n % 6 = 4 -> {StageRow(n, LayoutWallStart, 0, 0, 1, 0)}
      [] n % 6 = 5 -> {StageRow(n, LayoutLoop, 0, 0, 0, 0)}
      [] OTHER     -> {StageRow(n, LayoutIndented, 0, 1, 1, 1)}

\* APIClient.get_level_data: the stage's data, or None for every failure
\* (transport error, bad status, unparsable body, success flag not set).
get_level_data(stage_number) ==
    {None} \cup {Some(r) : r \in LevelRows(stage_number)}

\* ------------------------------------------------------------ parsing
\* The whitespace str.strip() removes, within the layouts' alphabet.
IsSpace(c) == c \in {" ", "\n"}

RECURSIVE lstrip(_)
lstrip(s) ==
    IF s = <<>> THEN s
    ELSE IF IsSpace(Head(s)) THEN lstrip(Tail(s)) ELSE s

RECURSIVE rstrip(_)
rstrip(s) ==
    IF s = <<>> THEN s
    ELSE IF IsSpace(s[Len(s)]) THEN rstrip(SubSeq(s, 1, Len(s) - 1)) ELSE s

\* str.strip(): leading and trailing whitespace removed.
strip(s) == rstrip(lstrip(s))

\* str.split('\n'): the pieces between line breaks; one empty piece for "".
RECURSIVE split(_)
split(s) ==
    IF \A i \in 1..Len(s) : s[i] # "\n" THEN <<s>>
    ELSE LET i == CHOOSE j \in 1..Len(s) :
                      /\ s[j] = "\n"
                      /\ \A k \in 1..(j - 1) : s[k] # "\n"
         IN  <<SubSeq(s, 1, i - 1)>> \o split(SubSeq(s, i + 1, Len(s)))

\* Mutant of parse_layout: the layout is split as it is, not stripped.
parse_layout_unstripped(layout) == split(layout)

\* load_stage's parse: one list of characters per line of the stripped layout.
parse_layout(layout) == split(strip(layout))

\* ------------------------------------------------------------ state
VARIABLES
    pc,               \* "init", "loop", "done" (cleanup ran), "aborted"
    running,          \* self.running
    current_stage,    \* self.current_stage
    stage_data,       \* self.stage_data (optional)
    maze,             \* self.maze
    player_x, player_y,
    end_x, end_y,
    game_state,       \* self.game_state
    stage_moves,      \* self.stage_moves
    total_moves,      \* self.total_moves
    continue_button,  \* self.continue_button (optional rectangle)
    \* history of the run, not read by the program:
    last,             \* the event handled by the last step
    trace,            \* Level Source requests and publish calls of the last step
    accepted,         \* position changes since the last successful load
    session,          \* the data of the last successful load (optional)
    level_sum,        \* moves_count of the level_complete calls since the
                      \* last game_start call, summed
    inflight,         \* the publish call that has not returned yet (optional;
                      \* used where a handler is followed call by call)
    \* the offline variant of the game (src/app/maze_game_local.py), used
    \* where the two variants run side by side:
    local,            \* its MazeGame object, a record of its fields
    \* the movement queue handler (src/app/sqs_handler.py):
    sqs,              \* the SQSHandler object, its threads and its queue
    \* the level-lookup handler (src/lambda/lambda_function.py):
    lam,              \* its process: the two module globals, and the event,
                      \* the outside calls and the response of the last
                      \* invocation
    \* the Level Source client (src/app/api_client.py) taken alone:
    api               \* its last call: the stage asked for, the HTTP reply
                      \* and what get_level_data made of it

gameVars ==
    <<current_stage, stage_data, maze, player_x, player_y, end_x, end_y,
      game_state, stage_moves, total_moves>>

vars ==
    <<pc, running, current_stage, stage_data, maze, player_x, player_y,
      end_x, end_y, game_state, stage_moves, total_moves, continue_button,
      last, trace, accepted, session, level_sum, inflight, local, sqs, lam, api>>

\* The components that run apart from the game client.
serviceVars == <<sqs, lam, api>>
\* What the steps of the remote game alone leave as it is.
otherVars == <<local, serviceVars>>
\* What the steps of those components leave as it is.
clientVars ==
    <<pc, running, gameVars, continue_button, last, trace, accepted, session,
      level_sum, inflight, local>>

\* ------------------------------------------------------------ history records
Event(type, key, pos) == [type |-> type, key |-> key, pos |-> pos]
NoEvent == Event("NONE", "", <<0, 0>>)

Request(stage_number, resp) ==
    [op |-> "request", type |-> "level", stage |-> stage_number,
     moves |-> 0, ok |-> resp # None]
Publish(type, stage_number, moves, ok) ==
    [op |-> "publish", type |-> type, stage |-> stage_number,
     moves |-> moves, ok |-> ok]

\* AnalyticsHandler.send_*: one publish call; it returns True when the queue
\* took the message and False when no queue is configured or the send
\* raised (the exception is caught inside).
send_level_complete(stage_number, moves_count) ==
    {Publish("level_complete", stage_number, moves_count, ok) : ok \in BOOLEAN}
send_game_complete(moves) ==
    {Publish("game_complete", 0, moves, ok) : ok \in BOOLEAN}
send_game_start ==
    {Publish("game_start", 0, 0, ok) : ok \in BOOLEAN}

\* ------------------------------------------------------------ Init
\* SQSHandler.__init__, with no listener thread yet and an empty queue.
\* threads[i] is the position of the i-th thread started on _listen_loop;
\* main is the position of the thread that calls the handler's methods;
\* received is what the last receive_movement call did.
NoReceive ==
    [response |-> "none", parsed |-> FALSE, deleted |-> FALSE,
     value |-> "None", raised |-> FALSE]
SqsInit ==
    [running |-> FALSE, listener_thread |-> 0, movement_callback |-> FALSE,
     threads |-> <<>>, main |-> "idle", queue |-> 0, received |-> NoReceive]

\* The handler's process after its module was loaded: both globals None, no
\* connection opened yet, no invocation yet.
LamInit ==
    [db_credentials_cache |-> None, db_connection |-> None, opened |-> 0,
     invoked |-> FALSE,
     event |-> [kind |-> "absent", stage_number |-> None],
     steps |-> <<>>, creds_called |-> FALSE, creds |-> None, conn |-> None,
     fetched |-> None,
     response |-> [statusCode |-> 0, success |-> FALSE, stage_number |-> 0]]

\* The Level Source client before its first call.
ApiInit ==
    [called |-> FALSE, stage |-> 0,
     reply |-> [transport |-> "error", status |-> 0,
                body |-> [kind |-> "text", success |-> "absent", data |-> None]],
     result |-> [raised |-> FALSE, value |-> None]]

\* MazeGame.__init__ of the offline variant.
LocalInit ==
    [current_stage |-> 1, stage_data |-> None, maze |-> <<>>,
     player_x |-> 0, player_y |-> 0, end_x |-> 0, end_y |-> 0,
     game_state |-> STATE_PLAYING, continue_button |-> None]

\* MazeGame.__init__
Init ==
    /\ pc = "init"
    /\ running = TRUE
    /\ current_stage = 1
    /\ stage_data = None
    /\ maze = <<>>
    /\ player_x = 0
    /\ player_y = 0
    /\ end_x = 0
    /\ end_y = 0
    /\ game_state = STATE_PLAYING
    /\ stage_moves = 0
    /\ total_moves = 0
    /\ continue_button = None
    /\ last = NoEvent
    /\ trace = <<>>
    /\ accepted = 0
    /\ session = None
    /\ level_sum = 0
    /\ inflight = None
    /\ local = LocalInit
    /\ sqs = SqsInit
    /\ lam = LamInit
    /\ api = ApiInit

\* ------------------------------------------------------------ operations
\* Mutant of load_stage: the stage move counter is not reset.
load_stage_keep_moves(stage_number, resp) ==
    /\ stage_data' = resp
    /\ IF resp = None
       THEN UNCHANGED <<maze, player_x, player_y, end_x, end_y,
                        stage_moves, game_state>>
       ELSE /\ maze' = parse_layout(resp[1].layout)
            /\ player_x' = resp[1].start_x
            /\ player_y' = resp[1].start_y
            /\ end_x' = resp[1].end_x
            /\ end_y' = resp[1].end_y
            /\ UNCHANGED stage_moves
            /\ game_state' = STATE_PLAYING

\* Mutant of load_stage: the grid is emptied before the answer is looked at.
load_stage_clear_first(stage_number, resp) ==
    /\ stage_data' = resp
    /\ IF resp = None
       THEN /\ maze' = <<>>
            /\ UNCHANGED <<player_x, player_y, end_x, end_y,
                           stage_moves, game_state>>
       ELSE /\ maze' = parse_layout(resp[1].layout)
            /\ player_x' = resp[1].start_x
            /\ player_y' = resp[1].start_y
            /\ end_x' = resp[1].end_x
            /\ end_y' = resp[1].end_y
            /\ stage_moves' = 0
            /\ game_state' = STATE_PLAYING

\* Mutant of load_stage: the parsed rows are appended to the grid in place.
load_stage_append(stage_number, resp) ==
    /\ stage_data' = resp
    /\ IF resp = None
       THEN UNCHANGED <<maze, player_x, player_y, end_x, end_y,
                        stage_moves, game_state>>
       ELSE /\ maze' = maze \o parse_layout(resp[1].layout)
            /\ player_x' = resp[1].start_x
            /\ player_y' = resp[1].start_y
            /\ end_x' = resp[1].end_x
            /\ end_y' = resp[1].end_y
            /\ stage_moves' = 0
            /\ game_state' = STATE_PLAYING

\* Mutant of load_stage: after a failed lookup play goes on with the data of
\* the earlier load.
load_stage_stale(stage_number, resp) ==
    /\ stage_data' = resp
    /\ IF resp = None
       THEN /\ stage_moves' = 0
            /\ game_state' = STATE_PLAYING
            /\ UNCHANGED <<maze, player_x, player_y, end_x, end_y>>
       ELSE /\ maze' = parse_layout(resp[1].layout)
            /\ player_x' = resp[1].start_x
            /\ player_y' = resp[1].start_y
            /\ end_x' = resp[1].end_x
            /\ end_y' = resp[1].end_y
            /\ stage_moves' = 0
            /\ game_state' = STATE_PLAYING

\* MazeGame.load_stage, given the Level Source's answer; the caller records
\* the request in trace.
load_stage(stage_number, resp) ==
    /\ stage_data' = resp
    /\ IF resp = None
       THEN UNCHANGED <<maze, player_x, player_y, end_x, end_y,
                        stage_moves, game_state>>
       ELSE /\ maze' = parse_layout(resp[1].layout)
            /\ player_x' = resp[1].start_x
            /\ player_y' = resp[1].start_y
            /\ end_x' = resp[1].end_x
            /\ end_y' = resp[1].end_y
            /\ stage_moves' = 0
            /\ game_state' = STATE_PLAYING

\* Mutant of is_valid_move: the bounds are checked, the wall is not.
is_valid_move_no_walls(x, y) ==
    IF y < 0 \/ y >= Len(maze) THEN FALSE
    ELSE IF x < 0 \/ x >= Len(maze[y + 1]) THEN FALSE
    ELSE TRUE

\* Mutant of is_valid_move: x is tested against the widest row of the grid,
\* and a cell its row does not have counts as open.
is_valid_move_uniform(x, y) ==
    IF y < 0 \/ y >= Len(maze) THEN FALSE
    ELSE IF x < 0 \/ \A r \in 1..Len(maze) : x >= Len(maze[r]) THEN FALSE
    ELSE IF x >= Len(maze[y + 1]) THEN TRUE
    ELSE maze[y + 1][x + 1] # "#"

\* MazeGame.is_valid_move
is_valid_move(x, y) ==
    IF y < 0 \/ y >= Len(maze) THEN FALSE
    ELSE IF x < 0 \/ x >= Len(maze[y + 1]) THEN FALSE
    ELSE maze[y + 1][x + 1] # "#"

\* Mutant of new_position: Up and Down exchanged.
new_position_flipped(key) ==
    CASE key = "K_UP"    -> <<player_x, player_y + 1>>
      [] key = "K_DOWN"  -> <<player_x, player_y - 1>>
      [] key = "K_LEFT"  -> <<player_x - 1, player_y>>
      [] key = "K_RIGHT" -> <<player_x + 1, player_y>>
      [] OTHER           -> <<player_x, player_y>>

\* The key dispatch of handle_movement: the candidate position.
new_position(key) ==
    CASE key = "K_UP"    -> <<player_x, player_y - 1>>
      [] key = "K_DOWN"  -> <<player_x, player_y + 1>>
      [] key = "K_LEFT"  -> <<player_x - 1, player_y>>
      [] key = "K_RIGHT" -> <<player_x + 1, player_y>>
      [] OTHER           -> <<player_x, player_y>>

\* Mutant of at_end: only the column is compared.
at_end_column_only(x, y) == x = end_x

\* handle_movement's goal test on the position just taken.
at_end(x, y) == x = end_x /\ y = end_y

\* Mutant of stage_completed: `>` for `>=` in the last-stage test.
stage_completed_strict(moves, total) ==
    \E lc \in send_level_complete(current_stage, moves) :
        IF current_stage > total_stages
        THEN /\ game_state' = STATE_GAME_COMPLETE
             /\ \E gc \in send_game_complete(total) : trace' = <<lc, gc>>
        ELSE /\ game_state' = STATE_STAGE_COMPLETE
             /\ trace' = <<lc>>

\* Mutant of stage_completed: the phase changes only when the level_complete
\* publish succeeded.
stage_completed_if_sent(moves, total) ==
    \E lc \in send_level_complete(current_stage, moves) :
        IF ~lc.ok
        THEN UNCHANGED game_state /\ trace' = <<lc>>
        ELSE IF current_stage >= total_stages
        THEN /\ game_state' = STATE_GAME_COMPLETE
             /\ \E gc \in send_game_complete(total) : trace' = <<lc, gc>>
        ELSE /\ game_state' = STATE_STAGE_COMPLETE
             /\ trace' = <<lc>>

\* Mutant of stage_completed: game_complete carries the stage's move count.
stage_completed_stage_total(moves, total) ==
    \E lc \in send_level_complete(current_stage, moves) :
        IF current_stage >= total_stages
        THEN /\ game_state' = STATE_GAME_COMPLETE
             /\ \E gc \in send_game_complete(moves) : trace' = <<lc, gc>>
        ELSE /\ game_state' = STATE_STAGE_COMPLETE
             /\ trace' = <<lc>>

\* MazeGame.stage_completed, called with the counters as just incremented.
stage_completed(moves, total) ==
    \E lc \in send_level_complete(current_stage, moves) :
        IF current_stage >= total_stages
        THEN /\ game_state' = STATE_GAME_COMPLETE
             /\ \E gc \in send_game_complete(total) : trace' = <<lc, gc>>
        ELSE /\ game_state' = STATE_STAGE_COMPLETE
             /\ trace' = <<lc>>

\* MazeGame.handle_movement
handle_movement(key) ==
    LET new_x == new_position(key)[1]
        new_y == new_position(key)[2]
    IN  IF key \notin ArrowKeys
        THEN UNCHANGED gameVars /\ trace' = <<>>
        ELSE IF is_valid_move(new_x, new_y)
        THEN /\ stage_moves < MaxStageMoves
             /\ player_x' = new_x
             /\ player_y' = new_y
             /\ stage_moves' = stage_moves + 1
             /\ total_moves' = total_moves + 1
             /\ UNCHANGED <<current_stage, stage_data, maze, end_x, end_y>>
             /\ IF at_end(new_x, new_y)
                THEN stage_completed(stage_moves + 1, total_moves + 1)
                ELSE UNCHANGED game_state /\ trace' = <<>>
        ELSE UNCHANGED gameVars /\ trace' = <<>>

\* Mutant of next_stage: the stage is loaded before the counter is advanced.
next_stage_reload ==
    /\ current_stage' = current_stage + 1
    /\ UNCHANGED total_moves
    /\ IF current_stage + 1 <= total_stages
       THEN \E resp \in get_level_data(current_stage) :
                /\ load_stage(current_stage, resp)
                /\ trace' = <<Request(current_stage, resp)>>
       ELSE /\ game_state' = STATE_GAME_COMPLETE
            /\ trace' = <<>>
            /\ UNCHANGED <<stage_data, maze, player_x, player_y, end_x, end_y,
                           stage_moves>>

\* Mutant of next_stage: the next stage is loaded without the range test.
next_stage_unchecked ==
    /\ current_stage' = current_stage + 1
    /\ UNCHANGED total_moves
    /\ \E resp \in get_level_data(current_stage + 1) :
           /\ load_stage(current_stage + 1, resp)
           /\ trace' = <<Request(current_stage + 1, resp)>>

\* MazeGame.next_stage
next_stage ==
    /\ current_stage' = current_stage + 1
    /\ UNCHANGED total_moves
    /\ IF current_stage + 1 <= total_stages
       THEN \E resp \in get_level_data(current_stage + 1) :
                /\ load_stage(current_stage + 1, resp)
                /\ trace' = <<Request(current_stage + 1, resp)>>
       ELSE /\ game_state' = STATE_GAME_COMPLETE
            /\ trace' = <<>>
            /\ UNCHANGED <<stage_data, maze, player_x, player_y, end_x, end_y,
                           stage_moves>>

\* Mutant of restart_game: total_moves is not reset.
restart_game_keep_total ==
    /\ current_stage' = 1
    /\ UNCHANGED total_moves
    /\ \E gs \in send_game_start, resp \in get_level_data(1) :
           /\ load_stage(1, resp)
           /\ trace' = <<gs, Request(1, resp)>>

\* MazeGame.restart_game
restart_game ==
    /\ current_stage' = 1
    /\ total_moves' = 0
    /\ \E gs \in send_game_start, resp \in get_level_data(1) :
           /\ load_stage(1, resp)
           /\ trace' = <<gs, Request(1, resp)>>

\* pygame.Rect(x, y, w, h).collidepoint(pos)
collidepoint(rect, pos) ==
    /\ rect.x <= pos[1] /\ pos[1] < rect.x + rect.w
    /\ rect.y <= pos[2] /\ pos[2] < rect.y + rect.h

\* The Continue button draw_stage_complete_popup stores.
stage_complete_button ==
    [x |-> (SCREEN_WIDTH - 150) \div 2,
     y |-> (SCREEN_HEIGHT - 200) \div 2 + 140, w |-> 150, h |-> 40]

\* The Play Again button draw_game_complete_popup stores.
game_complete_button ==
    [x |-> (SCREEN_WIDTH - 180) \div 2,
     y |-> (SCREEN_HEIGHT - 300) \div 2 + 220, w |-> 180, h |-> 40]

\* `self.continue_button and self.continue_button.collidepoint(event.pos)`
button_hit(pos) ==
    continue_button # None /\ collidepoint(continue_button[1], pos)

\* Mutant of on_keydown: the key is handled in every game state.
on_keydown_any_state(key) == handle_movement(key)

\* handle_events, branch KEYDOWN
on_keydown(key) ==
    IF game_state = STATE_PLAYING
    THEN handle_movement(key)
    ELSE UNCHANGED gameVars /\ trace' = <<>>

\* handle_events, branch MOUSEBUTTONDOWN
on_mousebuttondown(pos) ==
    IF game_state = STATE_STAGE_COMPLETE /\ button_hit(pos)
    THEN next_stage
    ELSE IF game_state = STATE_GAME_COMPLETE /\ button_hit(pos)
    THEN restart_game
    ELSE UNCHANGED gameVars /\ trace' = <<>>

\* MazeGame.draw: the popups store their button rectangle.
draw ==
    continue_button' =
        IF game_state = STATE_STAGE_COMPLETE THEN Some(stage_complete_button)
        ELSE IF game_state = STATE_GAME_COMPLETE THEN Some(game_complete_button)
        ELSE continue_button

\* ------------------------------------------------------------ history updates
\* The sum `sum` carried over the calls of t: a game_start call sets it to 0,
\* a level_complete call adds its moves_count.
RECURSIVE SumAfterStart(_, _)
SumAfterStart(t, sum) ==
    IF t = <<>> THEN sum
    ELSE LET c == Head(t)
         IN  SumAfterStart(Tail(t),
                 IF c.op = "publish" /\ c.type = "game_start" THEN 0
                 ELSE IF c.op = "publish" /\ c.type = "level_complete"
                 THEN sum + c.moves
                 ELSE sum)

LoadedNow == \E i \in 1..Len(trace') : trace'[i].op = "request" /\ trace'[i].ok

History(event) ==
    /\ last' = event
    /\ accepted' =
           IF LoadedNow THEN 0
           ELSE IF <<player_x', player_y'>> # <<player_x, player_y>>
           THEN accepted + 1
           ELSE accepted
    /\ session' = IF LoadedNow THEN stage_data' ELSE session
    /\ level_sum' = SumAfterStart(trace', level_sum)

\* ------------------------------------------------------------ actions
\* Mutant of Initialize: main ignores what initialize() returns.
Initialize_unchecked ==
    /\ pc = "init"
    /\ \E probe \in get_level_data(1) :
           IF probe = None
           THEN /\ pc' = "loop"
                /\ trace' = <<Request(1, probe)>>
                /\ UNCHANGED gameVars
           ELSE \E gs \in send_game_start, resp \in get_level_data(current_stage) :
                    /\ load_stage(current_stage, resp)
                    /\ trace' = <<Request(1, probe), gs,
                                  Request(current_stage, resp)>>
                    /\ pc' = "loop"
                    /\ UNCHANGED <<current_stage, total_moves>>
    /\ UNCHANGED <<running, continue_button, inflight, otherVars>>
    /\ History(NoEvent)

\* main: initialize() (connection test, game_start, first load), then run().
Initialize ==
    /\ pc = "init"
    /\ \E probe \in get_level_data(1) :
           IF probe = None
           THEN /\ pc' = "aborted"
                /\ trace' = <<Request(1, probe)>>
                /\ UNCHANGED gameVars
           ELSE \E gs \in send_game_start, resp \in get_level_data(current_stage) :
                    /\ load_stage(current_stage, resp)
                    /\ trace' = <<Request(1, probe), gs,
                                  Request(current_stage, resp)>>
                    /\ pc' = IF resp = None THEN "aborted" ELSE "loop"
                    /\ UNCHANGED <<current_stage, total_moves>>
    /\ UNCHANGED <<running, continue_button, inflight, otherVars>>
    /\ History(NoEvent)

\* One pygame.QUIT event of the batch.
Quit ==
    /\ pc = "loop"
    /\ running' = FALSE
    /\ trace' = <<>>
    /\ UNCHANGED <<pc, gameVars, continue_button, inflight, otherVars>>
    /\ History(Event("QUIT", "", <<0, 0>>))

\* One pygame.KEYDOWN event of the batch.
KeyDown ==
    /\ pc = "loop"
    /\ \E key \in Keys :
           /\ on_keydown(key)
           /\ History(Event("KEYDOWN", key, <<0, 0>>))
    /\ UNCHANGED <<pc, running, continue_button, inflight, otherVars>>

\* One pygame.MOUSEBUTTONDOWN event of the batch.
MouseButtonDown ==
    /\ pc = "loop"
    /\ \E pos \in ClickPoints :
           /\ on_mousebuttondown(pos)
           /\ History(Event("MOUSEBUTTONDOWN", "", pos))
    /\ UNCHANGED <<pc, running, continue_button, inflight, otherVars>>

\* An event of any other type: no branch of handle_events takes it.
OtherEvent ==
    /\ pc = "loop"
    /\ trace' = <<>>
    /\ UNCHANGED <<pc, running, gameVars, continue_button, inflight, otherVars>>
    /\ History(Event("OTHER", "", <<0, 0>>))

\* The end of a batch: draw(), then run()'s loop test; cleanup when stopped.
EndOfFrame ==
    /\ pc = "loop"
    /\ draw
    /\ pc' = IF running THEN "loop" ELSE "done"
    /\ trace' = <<>>
    /\ UNCHANGED <<running, gameVars, inflight, otherVars>>
    /\ History(NoEvent)

Next ==
    \/ Initialize
    \/ Quit
    \/ KeyDown
    \/ MouseButtonDown
    \/ OtherEvent
    \/ EndOfFrame

Spec == Init /\ [][Next]_vars

\* ------------------------------------------------------------ publish calls
\* The same program followed call by call through its publish calls:
\* AnalyticsHandler.send_* calls sqs_client.send_message on the game loop's
\* own thread, so a handler that publishes stands inside the call until the
\* Event Sink answers.  inflight holds that call; the statements after it run
\* when it returns.  (initialize() publishes before the loop exists and is
\* taken in one step.)
PublishCall(type, stage_number, moves) ==
    Some([type |-> type, stage |-> stage_number, moves |-> moves])

HasPublish(t) == \E i \in 1..Len(t) : t[i].op = "publish"

SinkInitialize == inflight = None /\ Initialize
SinkQuit == inflight = None /\ Quit
SinkOtherEvent == inflight = None /\ OtherEvent
SinkEndOfFrame == inflight = None /\ EndOfFrame

\* A key whose handling publishes nothing.
SinkKeyDown == inflight = None /\ KeyDown /\ ~HasPublish(trace')

\* A click whose handling publishes nothing (continue, or ignored).
SinkMouseButtonDown == inflight = None /\ MouseButtonDown /\ ~HasPublish(trace')

\* handle_movement takes the goal cell and stage_completed calls
\* send_level_complete: game_state is assigned only after the call.
SinkCompletionCall ==
    /\ inflight = None
    /\ pc = "loop"
    /\ game_state = STATE_PLAYING
    /\ \E key \in ArrowKeys :
           LET new_x == new_position(key)[1]
               new_y == new_position(key)[2]
           IN  /\ is_valid_move(new_x, new_y)
               /\ at_end(new_x, new_y)
               /\ stage_moves < MaxStageMoves
               /\ player_x' = new_x
               /\ player_y' = new_y
               /\ stage_moves' = stage_moves + 1
               /\ total_moves' = total_moves + 1
               /\ inflight' = PublishCall("level_complete", current_stage,
                                          stage_moves + 1)
               /\ last' = Event("KEYDOWN", key, <<0, 0>>)
    /\ trace' = <<>>
    /\ accepted' = accepted + 1
    /\ UNCHANGED <<pc, running, current_stage, stage_data, maze, end_x, end_y,
                   game_state, continue_button, session, level_sum,
                   otherVars>>

\* restart_game resets the counters and calls send_game_start: load_stage
\* runs only after the call.
SinkRestartCall ==
    /\ inflight = None
    /\ pc = "loop"
    /\ game_state = STATE_GAME_COMPLETE
    /\ \E pos \in ClickPoints :
           /\ button_hit(pos)
           /\ last' = Event("MOUSEBUTTONDOWN", "", pos)
    /\ current_stage' = 1
    /\ total_moves' = 0
    /\ inflight' = PublishCall("game_start", 0, 0)
    /\ trace' = <<>>
    /\ UNCHANGED <<pc, running, stage_data, maze, player_x, player_y, end_x,
                   end_y, game_state, stage_moves, continue_button, accepted,
                   session, level_sum, otherVars>>

\* The call in flight returns (sent or failed) and its handler runs on.
SinkReturn ==
    /\ inflight # None
    /\ \E ok \in BOOLEAN :
           LET call == inflight[1]
               done == Publish(call.type, call.stage, call.moves, ok)
           IN  CASE call.type = "level_complete" ->
                      /\ trace' = <<done>>
                      /\ IF current_stage >= total_stages
                         THEN /\ game_state' = STATE_GAME_COMPLETE
                              /\ inflight' = PublishCall("game_complete", 0,
                                                         total_moves)
                         ELSE /\ game_state' = STATE_STAGE_COMPLETE
                              /\ inflight' = None
                      /\ UNCHANGED <<current_stage, stage_data, maze, player_x,
                                     player_y, end_x, end_y, stage_moves,
                                     total_moves>>
                 [] call.type = "game_complete" ->
                      /\ trace' = <<done>>
                      /\ inflight' = None
                      /\ UNCHANGED gameVars
                 [] OTHER ->
                      /\ \E resp \in get_level_data(current_stage) :
                             /\ load_stage(current_stage, resp)
                             /\ trace' = <<done, Request(current_stage, resp)>>
                      /\ inflight' = None
                      /\ UNCHANGED <<current_stage, total_moves>>
    /\ last' = last
    /\ accepted' = IF LoadedNow THEN 0 ELSE accepted
    /\ session' = IF LoadedNow THEN stage_data' ELSE session
    /\ level_sum' = SumAfterStart(trace', level_sum)
    /\ UNCHANGED <<pc, running, continue_button, otherVars>>

SinkNext ==
    \/ SinkInitialize
    \/ SinkQuit
    \/ SinkKeyDown
    \/ SinkMouseButtonDown
    \/ SinkOtherEvent
    \/ SinkEndOfFrame
    \/ SinkCompletionCall
    \/ SinkRestartCall
    \/ SinkReturn

SpecSink == Init /\ [][SinkNext]_vars

\* ------------------------------------------------- arbitrary level data
\* The client started against a Level Source whose table holds any layout:
\* every text of at most MaxLayoutLen characters over LayoutChars, with the
\* start and end cells the table gives for it.
MaxLayoutLen == 4
LayoutChars == {"#", ".", " ", "\n"}
AnyLayouts == UNION {[1..n -> LayoutChars] : n \in 0..MaxLayoutLen}
StartCells == {<<0, 0>>, <<0, 1>>}
EndCells == {<<0, 0>>, <<1, 0>>}
AnyRows(n) ==
    {StageRow(n, l, s[1], s[2], e[1], e[2]) :
         l \in AnyLayouts, s \in StartCells, e \in EndCells}

\* main's call of initialize() against that Level Source.
InitializeAny ==
    /\ pc = "init"
    /\ \E probe_ok \in BOOLEAN :
           LET probe == [Request(1, None) EXCEPT !.ok = probe_ok]
           IN  IF ~probe_ok
               THEN /\ pc' = "aborted"
                    /\ trace' = <<probe>>
                    /\ UNCHANGED gameVars
               ELSE \E gs \in send_game_start,
                       resp \in {None} \cup {Some(r) : r \in AnyRows(current_stage)} :
                        /\ load_stage(current_stage, resp)
                        /\ trace' = <<probe, gs, Request(current_stage, resp)>>
                        /\ pc' = IF resp = None THEN "aborted" ELSE "loop"
                        /\ UNCHANGED <<current_stage, total_moves>>
    /\ UNCHANGED <<running, continue_button, inflight, otherVars>>
    /\ History(NoEvent)

LayoutsNext ==
    \/ InitializeAny
    \/ KeyDown

SpecLayouts == Init /\ [][LayoutsNext]_vars

\* ------------------------------------------------ the offline variant
\* MazeGame of src/app/maze_game_local.py.  Its methods are functions from
\* the object (a record l) to the object after the call.  Run side by side
\* with the remote game it gets the same events, the same total_stages and
\* the same table: LocalDatabaseHandler.get_stage answers with the row of the
\* stage (the table has one row per stage number) or with None.
local_get_stage(stage_number, found) ==
    IF found THEN Some(CHOOSE r \in LevelRows(stage_number) : TRUE) ELSE None

local_load_stage(l, stage_number, resp) ==
    IF resp = None
    THEN [l EXCEPT !.stage_data = None]
    ELSE [l EXCEPT !.stage_data = resp,
                   !.maze = parse_layout(resp[1].layout),
                   !.player_x = resp[1].start_x,
                   !.player_y = resp[1].start_y,
                   !.end_x = resp[1].end_x,
                   !.end_y = resp[1].end_y,
                   !.game_state = STATE_PLAYING]

local_is_valid_move(l, x, y) ==
    IF y < 0 \/ y >= Len(l.maze) THEN FALSE
    ELSE IF x < 0 \/ x >= Len(l.maze[y + 1]) THEN FALSE
    ELSE l.maze[y + 1][x + 1] # "#"

local_stage_completed(l) ==
    [l EXCEPT !.game_state = IF l.current_stage >= total_stages
                             THEN STATE_GAME_COMPLETE
                             ELSE STATE_STAGE_COMPLETE]

\* handle_movement of the offline variant: a key that is no arrow leaves
\* new_x, new_y at the player's cell and the method runs on.
local_handle_movement(l, key) ==
    LET new_x == CASE key = "K_LEFT"  -> l.player_x - 1
                   [] key = "K_RIGHT" -> l.player_x + 1
                   [] OTHER           -> l.player_x
        new_y == CASE key = "K_UP"    -> l.player_y - 1
                   [] key = "K_DOWN"  -> l.player_y + 1
                   [] OTHER           -> l.player_y
        moved == [l EXCEPT !.player_x = new_x, !.player_y = new_y]
    IN  IF local_is_valid_move(l, new_x, new_y)
        THEN IF new_x = l.end_x /\ new_y = l.end_y
             THEN local_stage_completed(moved)
             ELSE moved
        ELSE l

local_next_stage(l, found) ==
    LET m == [l EXCEPT !.current_stage = @ + 1]
    IN  IF m.current_stage <= total_stages
        THEN local_load_stage(m, m.current_stage,
                              local_get_stage(m.current_stage, found))
        ELSE [m EXCEPT !.game_state = STATE_GAME_COMPLETE]

local_restart_game(l, found) ==
    local_load_stage([l EXCEPT !.current_stage = 1], 1,
                     local_get_stage(1, found))

\* The Play Again button of the offline variant's draw_game_complete_popup.
local_game_complete_button ==
    [x |-> (SCREEN_WIDTH - 180) \div 2,
     y |-> (SCREEN_HEIGHT - 250) \div 2 + 180, w |-> 180, h |-> 40]

local_button_hit(l, pos) ==
    l.continue_button # None /\ collidepoint(l.continue_button[1], pos)

local_on_keydown(l, key) ==
    IF l.game_state = STATE_PLAYING THEN local_handle_movement(l, key) ELSE l

local_on_mousebuttondown(l, pos, found) ==
    IF l.game_state = STATE_STAGE_COMPLETE /\ local_button_hit(l, pos)
    THEN local_next_stage(l, found)
    ELSE IF l.game_state = STATE_GAME_COMPLETE /\ local_button_hit(l, pos)
    THEN local_restart_game(l, found)
    ELSE l

local_draw(l) ==
    [l EXCEPT !.continue_button =
        IF l.game_state = STATE_STAGE_COMPLETE THEN Some(stage_complete_button)
        ELSE IF l.game_state = STATE_GAME_COMPLETE
        THEN Some(local_game_complete_button)
        ELSE @]

\* The two variants side by side: each step gives both the same event, and
\* a lookup of the offline variant has the outcome of the remote variant's
\* lookup in that step (any outcome when the remote variant makes none).
\* pc and running are shared: both variants start, quit and stop together.
\* The run is followed as long as the variants agree, that is up to and
\* including the first step that leaves them in different states.
InStep ==
    /\ local.game_state = game_state
    /\ local.current_stage = current_stage
    /\ local.player_x = player_x
    /\ local.player_y = player_y

BothInitialize ==
    /\ pc = "init"
    /\ \E probe \in get_level_data(1) :
           IF probe = None
           THEN /\ pc' = "aborted"
                /\ trace' = <<Request(1, probe)>>
                /\ UNCHANGED gameVars
                /\ local' = local
           ELSE \E gs \in send_game_start, resp \in get_level_data(current_stage) :
                    /\ load_stage(current_stage, resp)
                    /\ trace' = <<Request(1, probe), gs,
                                  Request(current_stage, resp)>>
                    /\ pc' = IF resp = None THEN "aborted" ELSE "loop"
                    /\ UNCHANGED <<current_stage, total_moves>>
                    /\ local' = local_load_stage(local, local.current_stage, resp)
    /\ UNCHANGED <<running, continue_button, inflight, serviceVars>>
    /\ History(NoEvent)

BothKeyDown ==
    /\ pc = "loop"
    /\ InStep
    /\ \E key \in Keys :
           /\ on_keydown(key)
           /\ History(Event("KEYDOWN", key, <<0, 0>>))
           /\ local' = local_on_keydown(local, key)
    /\ UNCHANGED <<pc, running, continue_button, inflight, serviceVars>>

BothMouseButtonDown ==
    /\ pc = "loop"
    /\ InStep
    /\ \E pos \in ClickPoints, found \in BOOLEAN :
           /\ on_mousebuttondown(pos)
           /\ History(Event("MOUSEBUTTONDOWN", "", pos))
           /\ trace' # <<>> => found = trace'[Len(trace')].ok
           /\ local' = local_on_mousebuttondown(local, pos, found)
    /\ UNCHANGED <<pc, running, continue_button, inflight, serviceVars>>

BothEndOfFrame ==
    /\ pc = "loop"
    /\ InStep
    /\ draw
    /\ local' = local_draw(local)
    /\ pc' = IF running THEN "loop" ELSE "done"
    /\ trace' = <<>>
    /\ UNCHANGED <<running, gameVars, inflight, serviceVars>>
    /\ History(NoEvent)

BothNext ==
    \/ BothInitialize
    \/ Quit
    \/ BothKeyDown
    \/ BothMouseButtonDown
    \/ OtherEvent
    \/ BothEndOfFrame

SpecBoth == Init /\ [][BothNext]_vars

\* ------------------------------------------------ the movement listener
\* SQSHandler of src/app/sqs_handler.py: one thread calls its methods, every
\* start_listener starts one more thread on _listen_loop.
MaxThreads == 2
MaxQueued == 2

SetThread(i, at) == [sqs EXCEPT !.threads[i] = at]

\* send_movement: the message is queued, or the call fails and returns False.
SendMovement ==
    /\ sqs.main = "idle"
    /\ sqs.queue < MaxQueued
    /\ \E sent \in BOOLEAN :
           sqs' = [sqs EXCEPT !.queue = IF sent THEN @ + 1 ELSE @]
    /\ UNCHANGED <<clientVars, lam, api>>

\* start_listener(callback); callback may be None.
StartListener ==
    /\ sqs.main = "idle"
    /\ Len(sqs.threads) < MaxThreads
    /\ \E callback \in BOOLEAN :
           sqs' = [sqs EXCEPT !.movement_callback = callback,
                              !.running = TRUE,
                              !.threads = Append(@, "test"),
                              !.listener_thread = Len(sqs.threads) + 1]
    /\ UNCHANGED <<clientVars, lam, api>>

\* stop_listener up to its join(timeout=2).
StopListener ==
    /\ sqs.main = "idle"
    /\ sqs' = [sqs EXCEPT !.running = FALSE,
                          !.main = IF sqs.listener_thread # 0
                                   THEN "join" ELSE "idle"]
    /\ UNCHANGED <<clientVars, lam, api>>

\* join returns, the thread having ended or the two seconds having passed,
\* and stop_listener returns.
JoinReturn ==
    /\ sqs.main = "join"
    /\ sqs' = [sqs EXCEPT !.main = "idle"]
    /\ UNCHANGED <<clientVars, lam, api>>

\* Mutant of WorkerTest: the loop does not test self.running.
WorkerTest_forever(i) ==
    /\ i \in 1..Len(sqs.threads)
    /\ sqs.threads[i] = "test"
    /\ sqs' = SetThread(i, "receive")
    /\ UNCHANGED <<clientVars, lam, api>>

\* _listen_loop: `while self.running`
WorkerTest(i) ==
    /\ i \in 1..Len(sqs.threads)
    /\ sqs.threads[i] = "test"
    /\ sqs' = SetThread(i, IF sqs.running THEN "receive" ELSE "exited")
    /\ UNCHANGED <<clientVars, lam, api>>

\* What one receive_movement call meets: receive_message fails, answers
\* without Messages, or answers with one message; the message's body is a
\* movement (a non-empty JSON object), a JSON value that is false in Python
\* ({}, 0, null), or no JSON; delete_message succeeds or fails.
ReceiveOutcomes ==
    [response : {"error", "empty", "message"},
     body : {"movement", "falsy", "unparsable"},
     delete_ok : BOOLEAN]

Received(response, parsed, deleted, value) ==
    [response |-> response, parsed |-> parsed, deleted |-> deleted,
     value |-> value, raised |-> FALSE]

\* Mutant of receive_movement: the message is deleted before its body is
\* parsed.
receive_movement_delete_first(o) ==
    IF o.response # "message" THEN Received(o.response, FALSE, FALSE, "None")
    ELSE IF ~o.delete_ok THEN Received("message", FALSE, FALSE, "None")
    ELSE IF o.body = "unparsable" THEN Received("message", FALSE, TRUE, "None")
    ELSE Received("message", TRUE, TRUE, o.body)

\* SQSHandler.receive_movement: receive_message, json.loads of the body,
\* delete_message, return the parsed body; every exception is caught and
\* answered with None.
receive_movement(o) ==
    IF o.response # "message" THEN Received(o.response, FALSE, FALSE, "None")
    ELSE IF o.body = "unparsable" THEN Received("message", FALSE, FALSE, "None")
    ELSE IF ~o.delete_ok THEN Received("message", TRUE, FALSE, "None")
    ELSE Received("message", TRUE, TRUE, o.body)

\* receive_movement returns to _listen_loop: a message taken off the queue,
\* or None (nothing within the wait time, or an error, which it catches);
\* then the test `if message and self.movement_callback`.
WorkerReceive(i) ==
    /\ i \in 1..Len(sqs.threads)
    /\ sqs.threads[i] = "receive"
    /\ \E o \in ReceiveOutcomes :
           /\ o.response = "message" => sqs.queue > 0
           /\ LET r == receive_movement(o)
              IN  sqs' = [SetThread(i, IF r.value = "movement"
                                          /\ sqs.movement_callback
                                       THEN "callback" ELSE "test")
                            EXCEPT !.queue = IF r.deleted THEN @ - 1 ELSE @,
                                   !.received = r]
    /\ UNCHANGED <<clientVars, lam, api>>

\* The callback returns, or raises and the loop goes to its sleep(1).
WorkerCallback(i) ==
    /\ i \in 1..Len(sqs.threads)
    /\ sqs.threads[i] = "callback"
    /\ \E raised \in BOOLEAN :
           sqs' = SetThread(i, IF raised THEN "sleep" ELSE "test")
    /\ UNCHANGED <<clientVars, lam, api>>

WorkerSleep(i) ==
    /\ i \in 1..Len(sqs.threads)
    /\ sqs.threads[i] = "sleep"
    /\ sqs' = SetThread(i, "test")
    /\ UNCHANGED <<clientVars, lam, api>>

WorkerStep(i) ==
    \/ WorkerTest(i)
    \/ WorkerReceive(i)
    \/ WorkerCallback(i)
    \/ WorkerSleep(i)

ListenerNext ==
    \/ SendMovement
    \/ StartListener
    \/ StopListener
    \/ JoinReturn
    \/ \E i \in 1..MaxThreads : WorkerStep(i)

\* Every started thread keeps running (it is a thread of a live process), and
\* the join's timeout expires.
SpecListener ==
    /\ Init
    /\ [][ListenerNext]_vars
    /\ \A i \in 1..MaxThreads : WF_vars(WorkerStep(i))
    /\ WF_vars(JoinReturn)

\* ------------------------------------------------ the level-lookup handler
\* lambda_function.py.  One process handles one invocation at a time; the
\* globals db_connection and db_credentials_cache live as long as the process.
\* A secret (the parsed SecretString, a dict) is the set of its keys; a
\* connection is the number of the connect call that opened it.
MaxOpened == 2

SecretFull == {"host", "port", "database", "username", "password"}
SecretEmpty == {}
\* What get_secret_value and json.loads give: a secret, or None for an error.
SecretFetches == {None, Some(SecretFull), Some(SecretEmpty)}

\* Path parameter texts: "", "a", "0", "1", "2", "10", "11", "-1", "1.5", " 3".
StageTexts ==
    {<<>>, <<"a">>, <<"0">>, <<"1">>, <<"2">>, <<"1", "0">>, <<"1", "1">>,
     <<"-", "1">>, <<"1", ".", "5">>, <<" ", "3">>}

\* The events: no pathParameters member, a null one (the proxy integration
\* sends null when the route has no path parameter), or a dict with or
\* without the stage_number key.
Events ==
    {[kind |-> k, stage_number |-> None] : k \in {"absent", "null", "dict"}}
    \cup {[kind |-> "dict", stage_number |-> Some(t)] : t \in StageTexts}

\* What the invocation meets outside: the secret store's answer, whether the
\* cached connection answers SELECT 1, whether connect succeeds, and the
\* query's outcome.
Outcomes ==
    [fetch : SecretFetches, probe_ok : BOOLEAN, connect_ok : BOOLEAN,
     query : {"error", "none", "row"}]

Step(op, ok) == [op |-> op, ok |-> ok]

Digits == {"0", "1", "2", "3", "5"}
DigitValue(c) ==
    CASE c = "0" -> 0 [] c = "1" -> 1 [] c = "2" -> 2 [] c = "3" -> 3
      [] c = "5" -> 5
RECURSIVE DigitsValue(_, _)
DigitsValue(t, acc) ==
    IF t = <<>> THEN acc
    ELSE DigitsValue(Tail(t), 10 * acc + DigitValue(Head(t)))

\* int(text): surrounding whitespace and one sign are accepted; None stands
\* for ValueError.
py_int(text) ==
    LET u == strip(text)
        signed == u # <<>> /\ u[1] \in {"-", "+"}
        body == IF signed THEN Tail(u) ELSE u
    IN  IF body = <<>> \/ \E i \in 1..Len(body) : body[i] \notin Digits
        THEN None
        ELSE Some(IF signed /\ u[1] = "-"
                  THEN 0 - DigitsValue(body, 0)
                  ELSE DigitsValue(body, 0))

\* get_db_credentials: the cache after the call, the value returned (None
\* when it raised) and the calls made outside.  `if db_credentials_cache`
\* is Python truth: neither None nor an empty dict.
get_db_credentials(cache, fetch) ==
    IF cache # None /\ cache[1] # {}
    THEN [cache |-> cache, value |-> cache, steps |-> <<>>]
    ELSE IF fetch = None
    THEN [cache |-> cache, value |-> None,
          steps |-> <<Step("get_secret_value", FALSE)>>]
    ELSE [cache |-> fetch, value |-> fetch,
          steps |-> <<Step("get_secret_value", TRUE)>>]

\* The result of get_db_connection: the globals after the call, the
\* connection returned (None when it raised), what get_db_credentials
\* returned if it was called, and the calls made outside.
ConnResult(connection, cache, opened, conn, called, creds, steps) ==
    [db_connection |-> connection, db_credentials_cache |-> cache,
     opened |-> opened, conn |-> conn, creds_called |-> called,
     creds |-> creds, steps |-> steps]

\* Mutant of get_db_connection: a connection that failed its probe stays in
\* the global.
get_db_connection_keep_dead(l, o) ==
    LET probed == l.db_connection # None
        probe == IF probed THEN <<Step("probe", o.probe_ok)>> ELSE <<>>
        c == get_db_credentials(l.db_credentials_cache, o.fetch)
    IN  IF probed /\ o.probe_ok
        THEN ConnResult(l.db_connection, l.db_credentials_cache, l.opened,
                        l.db_connection, FALSE, None, probe)
        ELSE IF c.value = None \/ "host" \notin c.value[1]
        THEN ConnResult(l.db_connection, c.cache, l.opened, None, TRUE, c.value,
                        probe \o c.steps)
        ELSE IF o.connect_ok
        THEN ConnResult(Some(l.opened + 1), c.cache, l.opened + 1,
                        Some(l.opened + 1), TRUE, c.value,
                        probe \o c.steps \o <<Step("connect", TRUE)>>)
        ELSE ConnResult(l.db_connection, c.cache, l.opened, None, TRUE, c.value,
                        probe \o c.steps \o <<Step("connect", FALSE)>>)

\* get_db_connection: the probe of the cached connection, then
\* get_db_credentials, credentials['host'] (KeyError on a secret without it)
\* and psycopg2.connect.
get_db_connection(l, o) ==
    LET probed == l.db_connection # None
        probe == IF probed THEN <<Step("probe", o.probe_ok)>> ELSE <<>>
        c == get_db_credentials(l.db_credentials_cache, o.fetch)
    IN  IF probed /\ o.probe_ok
        THEN ConnResult(l.db_connection, l.db_credentials_cache, l.opened,
                        l.db_connection, FALSE, None, probe)
        ELSE IF c.value = None \/ "host" \notin c.value[1]
        THEN ConnResult(None, c.cache, l.opened, None, TRUE, c.value,
                        probe \o c.steps)
        ELSE IF o.connect_ok
        THEN ConnResult(Some(l.opened + 1), c.cache, l.opened + 1,
                        Some(l.opened + 1), TRUE, c.value,
                        probe \o c.steps \o <<Step("connect", TRUE)>>)
        ELSE ConnResult(None, c.cache, l.opened, None, TRUE, c.value,
                        probe \o c.steps \o <<Step("connect", FALSE)>>)

\* The stage numbers lambda_handler accepts are 1..LambdaMaxStage.
LambdaMaxStage == 10

\* The process after an invocation: globals as g left them, and the record of
\* the invocation.
Answered(l, e, g, more, status, success, number) ==
    [db_credentials_cache |-> g.db_credentials_cache,
     db_connection |-> g.db_connection,
     opened |-> g.opened,
     invoked |-> TRUE,
     event |-> e,
     steps |-> g.steps \o more,
     creds_called |-> g.creds_called,
     creds |-> g.creds,
     conn |-> g.conn,
     fetched |-> IF l.fetched = None /\ g.creds_called THEN g.creds
                 ELSE l.fetched,
     response |-> [statusCode |-> status, success |-> success,
                   stage_number |-> number]]

\* lambda_handler(event, context) under the outcomes o.
lambda_handler(l, e, o) ==
    LET untouched == ConnResult(l.db_connection, l.db_credentials_cache,
                                l.opened, None, FALSE, None, <<>>)
        text == e.stage_number
        number == IF text = None THEN None ELSE py_int(text[1])
        g == get_db_connection(l, o)
    IN  IF e.kind = "null"
        \* None.get(...) raises AttributeError, caught by the outer except
        THEN Answered(l, e, untouched, <<>>, 500, FALSE, 0)
        ELSE IF text = None \/ text[1] = <<>>
        THEN Answered(l, e, untouched, <<>>, 400, FALSE, 0)
        ELSE IF number = None
        THEN Answered(l, e, untouched, <<>>, 400, FALSE, 0)
        ELSE IF number[1] < 1 \/ number[1] > LambdaMaxStage
        THEN Answered(l, e, untouched, <<>>, 400, FALSE, 0)
        ELSE IF g.conn = None
        THEN Answered(l, e, g, <<>>, 500, FALSE, 0)
        ELSE IF o.query = "error"
        THEN Answered(l, e, g, <<Step("query", FALSE)>>, 500, FALSE, 0)
        ELSE IF o.query = "none"
        THEN Answered(l, e, g, <<Step("query", TRUE)>>, 404, FALSE, 0)
        ELSE Answered(l, e, g, <<Step("query", TRUE)>>, 200, TRUE, number[1])

\* One invocation of the handler.
Invoke ==
    /\ lam.opened < MaxOpened
    /\ \E e \in Events, o \in Outcomes : lam' = lambda_handler(lam, e, o)
    /\ UNCHANGED <<clientVars, sqs, api>>

\* The platform starts a new process: the module is loaded again.
ColdStart ==
    /\ lam.invoked
    /\ lam' = [LamInit EXCEPT !.opened = lam.opened]
    /\ UNCHANGED <<clientVars, sqs, api>>

LambdaNext ==
    \/ Invoke
    \/ ColdStart

SpecLambda == Init /\ [][LambdaNext]_vars

\* ------------------------------------------------ the Level Source client
\* APIClient.get_level_data taken alone, on every HTTP reply.  A reply is the
\* outcome of requests.get: a transport error, or a final response with its
\* status and body.  A body is text that is no JSON, a JSON list, or a JSON
\* object with or without the members success and data.
Statuses == {200, 304, 404, 500}
Bodies(stage_number) ==
    {[kind |-> k, success |-> "absent", data |-> None] : k \in {"text", "list"}}
    \cup {[kind |-> "object", success |-> f, data |-> d] :
              f \in {"absent", "true", "false"},
              d \in {None} \cup {Some(r) : r \in LevelRows(stage_number)}}
Replies(stage_number) ==
    [transport : {"ok", "error"}, status : Statuses, body : Bodies(stage_number)]

Returned(value) == [raised |-> FALSE, value |-> value]

\* APIClient.get_level_data.  raise_for_status raises for 400 <= status < 600;
\* response.json() raises on text that is no JSON; data.get raises on a list;
\* every exception is caught and answered with None.
api_get_level_data(stage_number, reply) ==
    IF reply.transport # "ok" THEN Returned(None)
    ELSE IF 400 <= reply.status /\ reply.status < 600 THEN Returned(None)
    ELSE IF reply.body.kind # "object" THEN Returned(None)
    ELSE IF reply.body.success = "true" THEN Returned(reply.body.data)
    ELSE Returned(None)

\* One call of get_level_data.
ApiCall ==
    /\ \E n \in 1..total_stages :
           \E reply \in Replies(n) :
               api' = [called |-> TRUE, stage |-> n, reply |-> reply,
                       result |-> api_get_level_data(n, reply)]
    /\ UNCHANGED <<clientVars, sqs, lam>>

ApiNext ==
    \/ ApiCall

SpecApi == Init /\ [][ApiNext]_vars

\* ------------------------------------------------------------ claims
\* Vocabulary of the claims, stated on the grid itself.
Player == <<player_x, player_y>>
Goal == <<end_x, end_y>>
InBounds(p) ==
    /\ p[2] >= 0 /\ p[2] < Len(maze)
    /\ p[1] >= 0 /\ p[1] < Len(maze[p[2] + 1])
IsWall(p) == InBounds(p) /\ maze[p[2] + 1][p[1] + 1] = "#"
IsOpen(p) == InBounds(p) /\ maze[p[2] + 1][p[1] + 1] # "#"
Delta(key) ==
    CASE key = "K_UP"    -> <<0, -1>>
      [] key = "K_DOWN"  -> <<0, 1>>
      [] key = "K_LEFT"  -> <<-1, 0>>
      [] key = "K_RIGHT" -> <<1, 0>>
Abs(n) == IF n < 0 THEN -n ELSE n

\* The step handles a direction key while the phase is Playing.
DirectionStep ==
    /\ last'.type = "KEYDOWN"
    /\ last'.key \in ArrowKeys
    /\ game_state = STATE_PLAYING
\* ... and the move was accepted: the player changed cell.
AcceptedMoveStep == DirectionStep /\ Player' # Player
\* The step handles a click inside the stored button rectangle.
ButtonClickStep ==
    /\ last'.type = "MOUSEBUTTONDOWN"
    /\ continue_button # None
    /\ LET r == continue_button[1]
           p == last'.pos
       IN  /\ p[1] \in r.x..(r.x + r.w - 1)
           /\ p[2] \in r.y..(r.y + r.h - 1)
ContinueStep == ButtonClickStep /\ game_state = STATE_STAGE_COMPLETE
RestartStep == ButtonClickStep /\ game_state = STATE_GAME_COMPLETE
LoadSucceeded(t) == \E i \in 1..Len(t) : t[i].op = "request" /\ t[i].ok
Published(t, type) == {i \in 1..Len(t) : t[i].op = "publish" /\ t[i].type = type}
\* The calls of a step in order, without their outcomes.
Calls(t) == [i \in 1..Len(t) |-> <<t[i].op, t[i].type, t[i].stage, t[i].moves>>]

\* C1: a direction key handled in phase Playing leaves the player in place
\* iff the destination p + delta(d) is a wall or out of bounds (per row, so
\* also in a ragged grid), and otherwise puts the player exactly on
\* p + delta(d); the position changes by at most one cell.
C1_MoveRule ==
    [][DirectionStep =>
        LET d == Delta(last'.key)
            dest == <<player_x + d[1], player_y + d[2]>>
        IN  /\ Player' = IF IsWall(dest) \/ ~InBounds(dest) THEN Player ELSE dest
            /\ Abs(player_x' - player_x) + Abs(player_y' - player_y) <= 1]_vars

\* An Up key was rejected at (1, 1) of the ragged grid: (1, 0) lies beyond
\* the end of the one-cell first row.
C1_Witness ==
    /\ last = Event("KEYDOWN", "K_UP", <<0, 0>>)
    /\ game_state = STATE_PLAYING
    /\ Len(maze) = 3 /\ Len(maze[1]) = 1 /\ Len(maze[2]) = 2
    /\ Player = <<1, 1>>

\* C2: an accepted move onto the goal while current_stage = total_stages
\* makes the phase GameComplete and publishes exactly level_complete for the
\* final stage and then game_complete with total_moves, nothing else.
C2_FinalStageCompletion ==
    [][(AcceptedMoveStep /\ Player' = Goal' /\ current_stage = total_stages) =>
        /\ game_state' = STATE_GAME_COMPLETE
        /\ Calls(trace') =
               <<<<"publish", "level_complete", total_stages, stage_moves'>>,
                 <<"publish", "game_complete", 0, total_moves'>>>>]_vars

\* The goal of the last stage was just reached.
C2_Witness ==
    /\ last.type = "KEYDOWN"
    /\ game_state = STATE_GAME_COMPLETE
    /\ current_stage = total_stages
    /\ Player = Goal
    /\ Len(trace) = 2
    /\ trace[2].type = "game_complete"

\* C3: before the last stage, an accepted move yields StageComplete iff the
\* new position equals the goal in both coordinates; then exactly one
\* level_complete with the stage number and the stage's move count is
\* published and no game_complete; any other accepted move keeps the phase
\* Playing and publishes nothing.
C3_StageCompletion ==
    [][(AcceptedMoveStep /\ current_stage < total_stages) =>
        IF Player' = Goal'
        THEN /\ game_state' = STATE_STAGE_COMPLETE
             /\ Calls(trace') =
                    <<<<"publish", "level_complete", current_stage, stage_moves'>>>>
        ELSE /\ game_state' = STATE_PLAYING
             /\ trace' = <<>>]_vars

\* An accepted move into the goal's column but not its row kept the phase
\* Playing: (1, 1) in the ragged grid, whose goal is (1, 2).
C3_Witness ==
    /\ last = Event("KEYDOWN", "K_RIGHT", <<0, 0>>)
    /\ game_state = STATE_PLAYING
    /\ current_stage < total_stages
    /\ Player = <<1, 1>> /\ Goal = <<1, 2>>
    /\ trace = <<>>

\* C4: the stage move counter equals the number of accepted moves since the
\* last successful load, and every level_complete event carries that number.
C4_MovesCountAccepted ==
    /\ stage_moves = accepted
    /\ \A i \in Published(trace, "level_complete") : trace[i].moves = accepted

\* A stage was completed in two moves and reported with moves_count 2.
C4_Witness ==
    /\ game_state = STATE_STAGE_COMPLETE
    /\ stage_moves = 2 /\ accepted = 2
    /\ Published(trace, "level_complete") = {1}
    /\ trace[1].moves = 2

\* C5: phase GameComplete implies current_stage = total_stages.
C5_GameCompleteAtLastStage ==
    game_state = STATE_GAME_COMPLETE => current_stage = total_stages

\* C6: current_stage stays within 1..total_stages.
C6_StageInRange == current_stage \in 1..total_stages

\* C7 as stated: after a successful load the player is always on an
\* in-bounds open cell of the grid or on the goal.
C7_PlayerOnOpenCell ==
    session # None => (IsOpen(Player) \/ Player = Goal)

\* The loaded stage's start addresses an in-bounds open cell or the goal.
StartUsable ==
    LET start == <<session[1].start_x, session[1].start_y>>
    IN  IsOpen(start) \/ start = <<session[1].end_x, session[1].end_y>>

\* C7 amended: when the loaded stage's start is an in-bounds open cell of the
\* parsed grid (or the goal), the player is on an in-bounds open cell or on
\* the goal after the load and after every later input.
C7_PlayerOnOpenCellGivenStart ==
    (session # None /\ StartUsable) => (IsOpen(Player) \/ Player = Goal)

\* The player stepped beside a wall of the ragged grid and stands on an
\* open cell that is not the goal.
C7_Witness ==
    /\ session # None /\ StartUsable
    /\ session[1].layout = LayoutRagged
    /\ stage_moves = 2
    /\ IsWall(<<0, 2>>)
    /\ Player = <<0, 1>> /\ Player # Goal

\* C8: a continue action in StageComplete whose load succeeds advances
\* current_stage by exactly 1 and yields phase Playing on the grid, start and
\* goal of that stage, with the stage move counter 0 and total_moves as it
\* was.
C8_ContinueLoadsNextStage ==
    [][(ContinueStep /\ LoadSucceeded(trace')) =>
        /\ current_stage' = current_stage + 1
        /\ game_state' = STATE_PLAYING
        /\ \E r \in LevelRows(current_stage + 1) :
               /\ maze' = parse_layout(r.layout)
               /\ Player' = <<r.start_x, r.start_y>>
               /\ Goal' = <<r.end_x, r.end_y>>
        /\ stage_moves' = 0
        /\ total_moves' = total_moves]_vars

\* Stage 2 was entered by a continue click after a one-move stage 1.
C8_Witness ==
    /\ last.type = "MOUSEBUTTONDOWN"
    /\ game_state = STATE_PLAYING
    /\ current_stage = 2
    /\ LoadSucceeded(trace)
    /\ stage_moves = 0 /\ total_moves = 1
    /\ Player = <<0, 1>>

\* C9: a restart action in GameComplete sets current_stage to 1 and
\* total_moves to 0, publishes exactly one game_start and then requests
\* stage 1; when that load succeeds the phase is Playing, the stage move
\* counter 0 and the player on stage 1's start.
C9_Restart ==
    [][RestartStep =>
        /\ current_stage' = 1
        /\ total_moves' = 0
        /\ Len(trace') = 2
        /\ trace'[1].op = "publish" /\ trace'[1].type = "game_start"
        /\ trace'[2].op = "request" /\ trace'[2].stage = 1
        /\ trace'[2].ok =>
               /\ game_state' = STATE_PLAYING
               /\ stage_moves' = 0
               /\ \E r \in LevelRows(1) : Player' = <<r.start_x, r.start_y>>]_vars

\* A restart click on the Play Again button has put the player back on
\* stage 1 with both counters at 0.
C9_Witness ==
    /\ last.type = "MOUSEBUTTONDOWN"
    /\ Len(trace) = 2 /\ trace[1].type = "game_start" /\ trace[2].ok
    /\ game_state = STATE_PLAYING
    /\ current_stage = 1 /\ total_moves = 0 /\ stage_moves = 0
    /\ continue_button = Some(game_complete_button)

\* The step handles an input outside the listed transitions: a key outside
\* phase Playing or no direction key, a click in phase Playing or outside the
\* button, a Quit or any other event.
IgnoredInputStep ==
    /\ last'.type \in {"KEYDOWN", "MOUSEBUTTONDOWN", "QUIT", "OTHER"}
    /\ ~DirectionStep
    /\ ~ContinueStep
    /\ ~RestartStep

\* C10: an input outside the listed transitions leaves the game state
\* unchanged, requests nothing from the Level Source and publishes nothing.
C10_IgnoredInput ==
    [][IgnoredInputStep => (UNCHANGED gameVars /\ trace' = <<>>)]_vars

\* A direction key arrived in StageComplete and the player stayed on the goal
\* with the counters as they were.
C10_Witness ==
    /\ last = Event("KEYDOWN", "K_LEFT", <<0, 0>>)
    /\ game_state = STATE_STAGE_COMPLETE
    /\ Player = Goal
    /\ stage_moves = 1 /\ total_moves = 1
    /\ trace = <<>>

\* The step makes at least one publish call.
PublishStep == \E i \in 1..Len(trace') : trace'[i].op = "publish"
EventTypes == {"game_start", "level_complete", "game_complete"}
\* What a step that loads stage n leaves behind, by the load's outcome.
AfterLoadOf(n) ==
    IF LoadSucceeded(trace')
    THEN /\ game_state' = STATE_PLAYING
         /\ stage_moves' = 0
         /\ \E r \in LevelRows(n) : Player' = <<r.start_x, r.start_y>>
    ELSE UNCHANGED <<game_state, stage_moves, player_x, player_y>>

\* C11: on every transition that publishes (initial start, stage completion,
\* game completion, restart) the resulting phase, current_stage, player
\* position, stage moves and total_moves are fixed by the state before, the
\* input and the load outcome alone, whatever each publish call returned;
\* the loop goes on, and each event is attempted at most once.
C11_PublishOutcomeIgnored ==
    [][PublishStep =>
        /\ \A type \in EventTypes : Cardinality(Published(trace', type)) <= 1
        /\ pc = "loop" => pc' = "loop"
        /\ CASE last'.type = "KEYDOWN" ->
                  /\ Player' = <<player_x + Delta(last'.key)[1],
                                 player_y + Delta(last'.key)[2]>>
                  /\ game_state' = IF current_stage = total_stages
                                   THEN STATE_GAME_COMPLETE
                                   ELSE STATE_STAGE_COMPLETE
                  /\ stage_moves' = stage_moves + 1
                  /\ total_moves' = total_moves + 1
                  /\ current_stage' = current_stage
             [] OTHER ->
                  /\ current_stage' = 1
                  /\ total_moves' = 0
                  /\ AfterLoadOf(1)]_vars

\* A stage was completed while the level_complete publish failed.
C11_Witness ==
    /\ last.type = "KEYDOWN"
    /\ game_state = STATE_STAGE_COMPLETE
    /\ Published(trace, "level_complete") = {1}
    /\ ~trace[1].ok
    /\ Player = Goal

\* C12: input handling never waits on the Event Sink: while a publish call
\* of a stage completion, game completion or restart has not returned, the
\* phase transition of that action is complete (the player on the goal is no
\* longer in phase Playing) and a key event can be handled.
C12_InputNeverWaitsOnSink ==
    inflight # None =>
        /\ inflight[1].type = "level_complete" => game_state # STATE_PLAYING
        /\ ENABLED SinkKeyDown

Requests(t) == {i \in 1..Len(t) : t[i].op = "request"}
LoadFailed(t) == \E i \in Requests(t) : ~t[i].ok

\* C13: a continue action requests the stage right after the completed one
\* (the last stage loaded), also when an earlier continue failed to load
\* it, and a failed load leaves the phase StageComplete; a restart action
\* requests stage 1 and a failed load leaves the phase GameComplete.
C13_RetrySameStage ==
    [][/\ ContinueStep =>
              /\ Requests(trace') = {1}
              /\ Len(trace') = 1
              /\ trace'[1].stage = session[1].stage_number + 1
              /\ ~trace'[1].ok => game_state' = STATE_STAGE_COMPLETE
       /\ RestartStep =>
              /\ Requests(trace') = {2}
              /\ trace'[2].stage = 1
              /\ ~trace'[2].ok => game_state' = STATE_GAME_COMPLETE]_vars

\* C14: a failed lookup during a continue or restart action leaves the grid,
\* the player, the goal, the stage move counter and the phase as they were,
\* and the loop goes on.
C14_FailedLoadKeepsSession ==
    [][((ContinueStep \/ RestartStep) /\ LoadFailed(trace')) =>
        /\ UNCHANGED <<maze, player_x, player_y, end_x, end_y, stage_moves,
                       game_state>>
        /\ pc' = "loop"]_vars

\* A continue click failed to load stage 2: the one-row grid of stage 1 is
\* still there with the player on its goal.
C14_Witness ==
    /\ last.type = "MOUSEBUTTONDOWN"
    /\ trace = <<Request(2, None)>>
    /\ game_state = STATE_STAGE_COMPLETE
    /\ maze = parse_layout(LayoutLine)
    /\ Player = <<1, 0>> /\ Goal = <<1, 0>>
    /\ stage_moves = 1

\* C15: the loop is entered only by a start whose connection test and load
\* of stage 1 both succeeded, in phase Playing with current_stage 1; a start
\* with a failed lookup aborts, nothing happens after an abort, and input
\* events are handled only inside the loop.
C15_LoopOnlyAfterLoad ==
    [][/\ (pc = "init" /\ pc' = "loop") =>
              /\ ~LoadFailed(trace')
              /\ \E i \in Requests(trace') : trace'[i].stage = 1
              /\ game_state' = STATE_PLAYING
              /\ current_stage' = 1
              /\ maze' # <<>>
       /\ (pc = "init" /\ LoadFailed(trace')) => pc' = "aborted"
       /\ pc = "aborted" => FALSE
       /\ last'.type # "NONE" => pc = "loop"]_vars

\* The loop has just been entered: connection test, game_start, load.
C15_Witness ==
    /\ pc = "loop"
    /\ last = NoEvent
    /\ Len(trace) = 3 /\ trace[1].ok /\ trace[3].ok
    /\ game_state = STATE_PLAYING
    /\ current_stage = 1
    /\ Player = <<0, 0>>

\* C16: every successful load, from initialize, continue or restart (the
\* load is the last call of its step), leaves the grid equal to the parse of the returned layout alone, the player on
\* its start, the goal on its end, the stage move counter 0 and the phase
\* Playing.
C16_LoadReplacesSession ==
    [][(trace' # <<>> /\ trace'[Len(trace')].op = "request"
          /\ trace'[Len(trace')].ok) =>
        \E r \in LevelRows(trace'[Len(trace')].stage) :
            /\ maze' = parse_layout(r.layout)
            /\ Player' = <<r.start_x, r.start_y>>
            /\ Goal' = <<r.end_x, r.end_y>>
            /\ stage_moves' = 0
            /\ game_state' = STATE_PLAYING]_vars

\* The five-row corridor of stage 3 has replaced the three-row grid of
\* stage 2.
C16_Witness ==
    /\ last.type = "MOUSEBUTTONDOWN"
    /\ trace = <<Request(3, Some(StageRow(3, LayoutCorridor, 1, 1, 1, 3)))>>
    /\ Len(maze) = 5
    /\ Player = <<1, 1>> /\ Goal = <<1, 3>>
    /\ stage_moves = 0 /\ total_moves = 3
    /\ game_state = STATE_PLAYING

\* C17: a click that takes the phase to Playing made, in that same step,
\* exactly one Level Source request, for the stage being entered, and that
\* request succeeded; no handled event makes more than one request.
C17_EntryByFreshLoad ==
    [][/\ (last'.type = "MOUSEBUTTONDOWN" /\ game_state # STATE_PLAYING
             /\ game_state' = STATE_PLAYING) =>
              /\ Cardinality(Requests(trace')) = 1
              /\ \A i \in Requests(trace') :
                     trace'[i].ok /\ trace'[i].stage = current_stage'
       /\ last'.type # "NONE" => Cardinality(Requests(trace')) <= 1]_vars

\* A restart has entered stage 1 again on a request made by that click.
C17_Witness ==
    /\ last.type = "MOUSEBUTTONDOWN"
    /\ Len(trace) = 2
    /\ trace[2] = Request(1, Some(StageRow(1, LayoutLine, 0, 0, 1, 0)))
    /\ game_state = STATE_PLAYING
    /\ current_stage = 1
    /\ session = stage_data

\* C18: every Level Source request is for a stage in 1..total_stages, and a
\* continue action at or past the last stage makes no request.
C18_RequestsInRange ==
    [][/\ \A i \in Requests(trace') : trace'[i].stage \in 1..total_stages
       /\ (ContinueStep /\ current_stage >= total_stages) =>
              Requests(trace') = {}]_vars

\* A continue click at current_stage = total_stages was turned away without
\* a request.
C18_Witness ==
    /\ last.type = "MOUSEBUTTONDOWN"
    /\ current_stage = total_stages + 1
    /\ trace = <<>>
    /\ stage_data = None

\* C19: stages are played in sequence with none skipped: a continue action
\* that loads a stage loads the one after the stage just completed, a restart
\* that loads a stage loads stage 1, and the phase becomes GameComplete only
\* by an accepted move onto the goal of stage total_stages.
C19_StagesInSequence ==
    [][/\ (ContinueStep /\ LoadSucceeded(trace')) =>
              session'[1].stage_number = session[1].stage_number + 1
       /\ (RestartStep /\ LoadSucceeded(trace')) =>
              session'[1].stage_number = 1
       /\ (game_state # STATE_GAME_COMPLETE
             /\ game_state' = STATE_GAME_COMPLETE) =>
              /\ AcceptedMoveStep
              /\ session[1].stage_number = total_stages]_vars

\* C20: every game_complete call carries the sum of the moves_count values of
\* the level_complete calls made since the latest game_start call (publishing
\* is the client's call, whatever the sink answers); total_moves is never
\* negative, and it decreases only in a restart, to 0.
C20_TotalIsSumOfStages ==
    [][/\ \A i \in Published(trace', "game_complete") :
              trace'[i].moves = SumAfterStart(SubSeq(trace', 1, i - 1), level_sum)
       /\ total_moves' >= 0
       /\ total_moves' < total_moves => (RestartStep /\ total_moves' = 0)
       /\ (total_moves' = 0 /\ total_moves # 0) => RestartStep]_vars

\* The game was completed with a total larger than the last stage's count.
C20_Witness ==
    /\ game_state = STATE_GAME_COMPLETE
    /\ Len(trace) = 2
    /\ trace[2].type = "game_complete"
    /\ trace[2].moves = level_sum
    /\ trace[2].moves = total_moves
    /\ total_moves > stage_moves

\* ------------------------------------------------------- grid and parsing
\* The coordinates the walkability query is asked about: from below 0 to
\* beyond every row and column a layout of MaxLayoutLen characters can have.
QueryRange == (0 - 2)..(MaxLayoutLen + 1)

\* C21: on every grid a load can produce, is_valid_move(x, y) is a boolean
\* for every integer pair: false for negative coordinates, for y beyond the
\* last row, for x beyond the length of row y (also when a longer row has
\* that x) and for a '#' cell, true for every other cell of the grid; and
\* the key step that asks it leaves the grid as it was.
C21_WalkabilityTotal ==
    /\ [](\A x \in QueryRange, y \in QueryRange :
             /\ is_valid_move(x, y) \in BOOLEAN
             /\ (x < 0 \/ y < 0 \/ y >= Len(maze)) => ~is_valid_move(x, y)
             /\ (y >= 0 /\ y < Len(maze) /\ x >= Len(maze[y + 1])) =>
                    ~is_valid_move(x, y)
             /\ IsWall(<<x, y>>) => ~is_valid_move(x, y)
             /\ (InBounds(<<x, y>>) /\ ~IsWall(<<x, y>>)) => is_valid_move(x, y))
    /\ [][last'.type = "KEYDOWN" => maze' = maze]_vars

\* On the ragged grid ".\n..", the move up from (1, 1) was refused: row 0
\* has no column 1 although row 1 has.
C21_Witness ==
    /\ maze = << <<".">>, <<".", ".">> >>
    /\ last.type = "KEYDOWN" /\ last.key = "K_UP"
    /\ Player = <<1, 1>>
    /\ stage_moves = 1
    /\ game_state = STATE_PLAYING

\* The lines of a layout once only its leading and trailing blank lines are
\* removed; a line is blank when it has nothing but spaces.
IsBlankLine(l) == \A i \in 1..Len(l) : l[i] = " "
RECURSIVE DropLeadingBlank(_)
DropLeadingBlank(ls) ==
    IF ls # <<>> /\ IsBlankLine(Head(ls)) THEN DropLeadingBlank(Tail(ls)) ELSE ls
RECURSIVE DropTrailingBlank(_)
DropTrailingBlank(ls) ==
    IF ls # <<>> /\ IsBlankLine(ls[Len(ls)])
    THEN DropTrailingBlank(SubSeq(ls, 1, Len(ls) - 1))
    ELSE ls
LayoutLines(layout) == DropTrailingBlank(DropLeadingBlank(split(layout)))

\* C22: the grid of a loaded stage has the lines of its layout that remain
\* once leading and trailing blank lines are removed, row for row and column
\* for column: cell (x, y) exists iff line y has a character x, and it is a
\* wall iff that character is '#'.  (Layouts with no line left are C24's.)
C22_ParseCellForCell ==
    (session # None /\ LayoutLines(session[1].layout) # <<>>) =>
        LET ls == LayoutLines(session[1].layout)
        IN  /\ Len(maze) = Len(ls)
            /\ \A y \in 1..Len(ls) :
                   /\ Len(maze[y]) = Len(ls[y])
                   /\ \A x \in 1..Len(ls[y]) :
                          IsWall(<<x - 1, y - 1>>) <=> ls[y][x] = "#"

\* C23: a loaded layout all of whose H lines are non-blank gives a grid of
\* exactly H rows, and a layout gives the same grid with and without a
\* trailing blank line (a final line break).
C23_HeightAndTrailingBlank ==
    session # None =>
        LET L == session[1].layout
        IN  /\ (\A i \in 1..Len(split(L)) : ~IsBlankLine(split(L)[i])) =>
                   Len(maze) = Len(split(L))
            /\ maze = parse_layout(L \o <<"\n">>)
            /\ (L # <<>> /\ L[Len(L)] = "\n") =>
                   maze = parse_layout(SubSeq(L, 1, Len(L) - 1))

\* The layout "#\n.\n" was loaded: two rows, the trailing blank line gone.
C23_Witness ==
    /\ session # None
    /\ session[1].layout = <<"#", "\n", ".", "\n">>
    /\ maze = << <<"#">>, <<".">> >>
    /\ pc = "loop"

\* C24: a load whose returned layout has no line left once blank lines are
\* removed (an empty text, or blank lines only) fails: the grid and the phase
\* stay as they were, and initialize reports the failure, so that the loop
\* is not entered on an empty grid.
C24_EmptyLayoutFails ==
    [][(/\ trace' # <<>>
        /\ trace'[Len(trace')].op = "request"
        /\ trace'[Len(trace')].ok
        /\ LayoutLines(stage_data'[1].layout) = <<>>) =>
            /\ UNCHANGED <<maze, game_state>>
            /\ pc = "init" => pc' = "aborted"]_vars

\* ------------------------------------------------------- the two variants
\* C25: in the remote and in the offline variant, a key press that is not a
\* direction key leaves the whole game state as it was (player, phase,
\* current_stage, grid, counters), in every phase and on every layout.
C25_OtherKeysIgnored ==
    [][(last'.type = "KEYDOWN" /\ last'.key \notin ArrowKeys) =>
           /\ UNCHANGED gameVars
           /\ local' = local]_vars

\* C26: run side by side on the same events, table and lookup outcomes, the
\* two variants have the same phase, current_stage and player position after
\* every input.
C26_VariantsAgree ==
    pc = "loop" =>
        /\ local.game_state = game_state
        /\ local.current_stage = current_stage
        /\ <<local.player_x, local.player_y>> = Player

\* ------------------------------------------------------- the listener
\* C27: the listener is cancelable.  If from some point on running stays
\* False (stop_listener was called and start_listener is not called again),
\* every worker thread ends; while running is False no worker goes from its
\* loop test into another receive; and a stop_listener that waits in join
\* returns, whether or not the worker has ended.
C27_ListenerCancelable ==
    /\ (<>[](~sqs.running)) =>
           <>[](\A i \in 1..Len(sqs.threads) : sqs.threads[i] = "exited")
    /\ (sqs.main = "join") ~> (sqs.main = "idle")
    /\ [][~sqs.running =>
             \A i \in 1..Len(sqs.threads) :
                 (sqs.threads[i] = "test" /\ sqs'.threads[i] # "test") =>
                     sqs'.threads[i] = "exited"]_vars
    /\ [](sqs.main = "join" => ENABLED JoinReturn)

\* stop_listener has returned and the worker it stopped has ended.
C27_Witness ==
    /\ ~sqs.running
    /\ sqs.listener_thread = 1
    /\ sqs.threads = <<"exited">>
    /\ sqs.main = "idle"
    /\ sqs.queue = 1

\* ------------------------------------------------------- the lookup handler
\* The last invocation made the outside call op with outcome ok.
Did(l, op, ok) == \E i \in 1..Len(l.steps) : l.steps[i] = Step(op, ok)

\* C28: every invocation is answered.  A missing, non-integer or out of range
\* stage number gets 400 before any outside call; otherwise the answer is 404
\* or 200 after a successful query, and 500 exactly when connecting or
\* querying failed; 200 comes with success and the requested stage number,
\* and success only with 200.
C28_HandlerAnswers ==
    lam.invoked =>
        LET text == lam.event.stage_number
            missing == lam.event.kind # "dict" \/ text = None \/ text[1] = <<>>
            number == IF missing THEN None ELSE py_int(text[1])
            bad == missing \/ number = None
                     \/ number[1] \notin 1..LambdaMaxStage
            r == lam.response
        IN  /\ r.statusCode \in {200, 400, 404, 500}
            /\ bad => (r.statusCode = 400 /\ lam.steps = <<>>)
            /\ ~bad =>
                   /\ r.statusCode # 400
                   /\ r.statusCode = 500 <=>
                          (lam.conn = None \/ Did(lam, "query", FALSE))
                   /\ r.statusCode = 200 => r.stage_number = number[1]
            /\ r.success <=> r.statusCode = 200

\* C29: once get_db_credentials has succeeded in a process, no later
\* invocation of that process calls the secret store, and every later call
\* of get_db_credentials returns that same value; a failed fetch leaves the
\* cache None.
C29_CredentialsFetchedOnce ==
    [][/\ lam.fetched # None =>
              /\ ~Did(lam', "get_secret_value", TRUE)
              /\ ~Did(lam', "get_secret_value", FALSE)
              /\ lam'.creds_called => lam'.creds = lam.fetched
       /\ Did(lam', "get_secret_value", FALSE) =>
              lam'.db_credentials_cache = None]_vars

\* C30: an invocation that called get_db_connection got the cached
\* connection only if its probe succeeded; after a failed probe it got a
\* newly opened connection; whatever connection was returned is the cached
\* one afterwards, and when the call raised the cache is None.
C30_NoDeadConnection ==
    [][lam'.steps # <<>> =>
           /\ (lam'.conn # None /\ lam'.conn = lam.db_connection) =>
                  Did(lam', "probe", TRUE)
           /\ (Did(lam', "probe", FALSE) /\ lam'.conn # None) =>
                  /\ lam'.conn = Some(lam.opened + 1)
                  /\ Did(lam', "connect", TRUE)
           /\ lam'.conn # None => lam'.db_connection = lam'.conn
           /\ lam'.conn = None => lam'.db_connection = None]_vars

\* The cached connection 1 failed its probe; connection 2 was opened,
\* returned and cached, and the query on it answered.
C30_Witness ==
    /\ lam.steps = <<Step("probe", FALSE), Step("connect", TRUE),
                     Step("query", TRUE)>>
    /\ lam.conn = Some(2)
    /\ lam.db_connection = Some(2)
    /\ lam.response.statusCode = 200

\* ------------------------------------------------------- the Level Source
\* C31: get_level_data never raises; it returns data only when the request
\* went through, the status is 2xx and the body is an object with success
\* true, and then it returns the body's data; for every other reply it
\* returns None; what it returns is what load_stage takes as a lookup result.
C31_NoneOnEveryFailure ==
    api.called =>
        /\ ~api.result.raised
        /\ api.result.value # None =>
               /\ api.reply.transport = "ok"
               /\ api.reply.status \in 200..299
               /\ api.reply.body.kind = "object"
               /\ api.reply.body.success = "true"
               /\ api.result.value = api.reply.body.data
        /\ api.result.value \in get_level_data(api.stage)

\* ------------------------------------------------- entering GameComplete
\* C32: the phase becomes GameComplete only by an accepted move onto the goal
\* of stage total_stages, and that step publishes game_complete; no continue
\* and no restart sets the phase to GameComplete.
C32_GameCompleteOnlyByFinalGoal ==
    [][/\ (game_state # STATE_GAME_COMPLETE /\ game_state' = STATE_GAME_COMPLETE)
            => /\ AcceptedMoveStep
               /\ current_stage = total_stages
               /\ Player' = Goal
               /\ Published(trace', "game_complete") # {}
       /\ (ContinueStep \/ RestartStep)
            => ~(game_state # STATE_GAME_COMPLETE
                 /\ game_state' = STATE_GAME_COMPLETE)]_vars

\* ------------------------------------------------------- stale popup button
\* C33: a click is accepted as continue or restart only if the popup of the
\* current phase has been drawn since the phase was entered; so a click
\* handled right after the completing move, in the same event batch and
\* before any draw, changes nothing and makes no call.
C33_ClickNeedsDrawnPopup ==
    [][(/\ last.type = "KEYDOWN"
        /\ Published(trace, "level_complete") # {}
        /\ game_state \in {STATE_STAGE_COMPLETE, STATE_GAME_COMPLETE}
        /\ last'.type = "MOUSEBUTTONDOWN")
            => (UNCHANGED gameVars /\ trace' = <<>>)]_vars

\* ------------------------------------------------------------- after Quit
\* C34: once a Quit event has been handled, no input event handled after it,
\* later events of the same batch included, changes the game state or makes
\* a Level Source request or a publish call; the loop ends at the next loop
\* test and nothing runs after cleanup.
C34_NoInputAfterQuit ==
    [][/\ (pc = "loop" /\ ~running /\ last'.type \in {"KEYDOWN", "MOUSEBUTTONDOWN"})
            => (UNCHANGED gameVars /\ trace' = <<>>)
       /\ (pc = "loop" /\ ~running /\ last'.type = "NONE") => pc' = "done"
       /\ pc = "done" => UNCHANGED vars]_vars

\* ------------------------------------------------------ listener workers
\* C35: after stop_listener has returned (and before any new start_listener)
\* no worker invokes the movement callback, wherever the worker was when
\* stop_listener was called.
C35_NoCallbackAfterStop ==
    [][(~sqs.running /\ sqs.main = "idle") =>
        \A i \in 1..Len(sqs.threads) :
            sqs'.threads[i] = "callback" => sqs.threads[i] = "callback"]_vars

\* C36: whatever the sequence of start_listener and stop_listener calls, at
\* most one listener worker is inside its receive loop.
C36_AtMostOneWorker ==
    Cardinality({i \in 1..Len(sqs.threads) : sqs.threads[i] # "exited"}) <= 1

\* ------------------------------------------------------ receive_movement
\* C37: receive_movement hands each queue message over at most once.  On
\* every return of receive_movement to the listener loop: a message was
\* deleted only if its body was parsed; a value was returned only if the
\* message was deleted, and only a returned value is passed to the callback;
\* a message whose body did not parse was neither deleted nor returned; the
\* queue loses exactly the deleted message; and no outcome raises: the call
\* returns None and the loop does not go to its exception handler.
C37_DeleteAfterParse ==
    [][\A i \in 1..Len(sqs.threads) :
          (sqs.threads[i] = "receive" /\ sqs'.threads[i] # "receive") =>
              LET r == sqs'.received
              IN  /\ r.deleted => r.parsed
                  /\ r.value # "None" => r.deleted
                  /\ ~r.parsed => (~r.deleted /\ r.value = "None")
                  /\ r.response # "message" => (~r.deleted /\ r.value = "None")
                  /\ sqs'.threads[i] = "callback" => r.value # "None"
                  /\ sqs'.queue = sqs.queue - (IF r.deleted THEN 1 ELSE 0)
                  /\ ~r.raised
                  /\ sqs'.threads[i] # "sleep"]_vars

\* A worker is in the callback with a movement that receive_movement parsed,
\* deleted and returned, and the queue is empty again.
C37_Witness ==
    /\ sqs.threads = <<"callback">>
    /\ sqs.received = Received("message", TRUE, TRUE, "movement")
    /\ sqs.queue = 0

====
